---- MODULE Spec2Model ----
(***************************************************************************)
(* QUANTAID Lite frontend: the RealTimeDashboard component                 *)
(* (frontend/src/components/ui/slider.jsx, lines 87-231), the timers of    *)
(* ChampionshipDashboard and WorldMap, and the request handlers of         *)
(* CrisisPredictor, AdvancedAIPredictor, QuantumOptimizer, Dashboard and   *)
(* DataExplorer.                                                           *)
(*                                                                         *)
(* Numbers.  Math.random() returns k/RandDen for k in 0..RandDen-1, so a   *)
(* draw is its numerator k.  The system metrics are fixed-point numbers    *)
(* with Scale units per 1.0 (Scale = 20*RandDen makes every jitter the     *)
(* code computes exact).  An alert id, Date.now() + Math.random(), is kept *)
(* as the integer now*RandDen + k.  Times are milliseconds.                *)
(***************************************************************************)
EXTENDS Integers, Sequences, FiniteSets, TLC

VARIABLES phase, alerts, systemMetrics, liveData, isConnected,
          alertTicks, metricsTicks, userOps, nextSeq, issued, pushed,
          timers, cleanups,
          championshipDashboard, worldMap,
          crisisPredictor, advancedAIPredictor, quantumOptimizer,
          dashboard, dataExplorer

\* The state of RealTimeDashboard and the history kept about it.
realTimeVars == <<phase, alerts, systemMetrics, liveData, isConnected,
                  alertTicks, metricsTicks, userOps, nextSeq, issued, pushed,
                  timers, cleanups>>

\* The components outside RealTimeDashboard, outside ChampionshipDashboard
\* and outside WorldMap: a component's actions leave the others alone.
\* The components with timers, and those that call the backend.
timerViews == <<realTimeVars, championshipDashboard, worldMap>>

backendViews == <<crisisPredictor, advancedAIPredictor, quantumOptimizer,
                  dashboard, dataExplorer>>

outsideRealTime == <<championshipDashboard, worldMap, backendViews>>

outsideChampionship == <<realTimeVars, worldMap, backendViews>>

outsideWorldMap == <<realTimeVars, championshipDashboard, backendViews>>

outsideCrisisPredictor ==
  <<timerViews, advancedAIPredictor, quantumOptimizer, dashboard, dataExplorer>>

outsideAdvancedAIPredictor ==
  <<timerViews, crisisPredictor, quantumOptimizer, dashboard, dataExplorer>>

outsideQuantumOptimizer ==
  <<timerViews, crisisPredictor, advancedAIPredictor, dashboard, dataExplorer>>

outsideDashboard ==
  <<timerViews, crisisPredictor, advancedAIPredictor, quantumOptimizer,
    dataExplorer>>

outsideDataExplorer ==
  <<timerViews, crisisPredictor, advancedAIPredictor, quantumOptimizer,
    dashboard>>

vars == <<timerViews, backendViews>>

---------------------------------------------------------------------------
(* Bounds of the model *)

RandDen == 10

StartTime == 600000

MaxPushes == 8

MaxQueueEvents == 2

MaxMetricsTicks == 12

MaxStopPushes == 2

MaxStopEvents == 3

MaxCleanups == 2

MaxViewEvents == 1

MaxGeneratorPushes == 1

MaxGeneratorEvents == 1

MaxRequests == 1

MaxReloads == 2

MaxChampionshipTicks == 3

---------------------------------------------------------------------------
(* Program constants *)

AlertKeep == 9

DataKeep == 9

InitialAlerts == 3

InitialData == 10

AlertPeriod == 3000

MetricsPeriod == 2000

Minute == 60000

---------------------------------------------------------------------------
(* Arithmetic on draws and fixed-point values *)

Rand == 0..(RandDen - 1)

Scale == 20 * RandDen

\* the number tenths/10 in fixed point
Fixed(tenths) == tenths * 2 * RandDen

\* Math.random() > tenths/10
RandomAbove(k, tenths) == 10 * k > tenths * RandDen

\* Math.floor(Math.random() * n)
FloorTimes(k, n) == (k * n) \div RandDen

\* Mutant: Math.random() * (ampTenths/10), the - 0.5 forgotten.
Uncentered(k, ampTenths) == 2 * k * ampTenths

\* (Math.random() - 0.5) * (ampTenths/10), in fixed point
Centered(k, ampTenths) == (2 * k - RandDen) * ampTenths

\* Math.floor(x) of a fixed-point x, in fixed point
MathFloor(x) == (x \div Scale) * Scale

MathMax(a, b) == IF a >= b THEN a ELSE b

MathMin(a, b) == IF a <= b THEN a ELSE b

\* Date.prototype.toLocaleTimeString: the time of day to the second
ToLocaleTimeString(ms) == (ms \div 1000) % 86400

---------------------------------------------------------------------------
(* generateAlert *)

alertTypes ==
  << [type |-> "crisis", icon |-> "AlertTriangle", color |-> "red",
      messages |-> << "Drought conditions worsening in Horn of Africa",
                      "Flood risk elevated in Bangladesh Delta",
                      "Food security declining in Sahel region",
                      "Hurricane approaching Central America" >>],
     [type |-> "prediction", icon |-> "Brain", color |-> "blue",
      messages |-> << "AI model detected yield anomaly in wheat belt",
                      "Ensemble prediction confidence increased to 96%",
                      "New climate pattern identified affecting corn production",
                      "Risk assessment updated for 3 regions" >>],
     [type |-> "quantum", icon |-> "Atom", color |-> "purple",
      messages |-> << "Quantum optimization completed for resource allocation",
                      "QAOA algorithm achieved 18% efficiency gain",
                      "Route optimization reduced delivery time by 25%",
                      "Quantum circuit depth optimized for faster execution" >>],
     [type |-> "system", icon |-> "Activity", color |-> "green",
      messages |-> << "Real-time data sync completed successfully",
                      "Model training completed with improved accuracy",
                      "System performance optimized",
                      "New data sources integrated" >>] >>

\* The five Math.random() calls of one generateAlert(), in call order.
AlertDraw == [type : Rand, msg : Rand, idf : Rand, sev1 : Rand, sev2 : Rand]

\* Mutant: the message is taken from the first catalog entry whatever the type.
generateAlertAnyMessage(now, d, seq) ==
  LET randomType == alertTypes[FloorTimes(d.type, Len(alertTypes)) + 1]
      randomMessage ==
        alertTypes[1].messages[FloorTimes(d.msg, Len(randomType.messages)) + 1]
  IN  [id |-> now * RandDen + d.idf,
       type |-> randomType.type,
       icon |-> randomType.icon,
       color |-> randomType.color,
       message |-> randomMessage,
       timestamp |-> now,
       severity |-> IF RandomAbove(d.sev1, 7) THEN "high"
                    ELSE IF RandomAbove(d.sev2, 4) THEN "medium" ELSE "low",
       read |-> FALSE,
       seq |-> seq,
       draw |-> d]

\* Mutant: the severity also looks at the clock.
generateAlertClocked(now, d, seq) ==
  LET randomType == alertTypes[FloorTimes(d.type, Len(alertTypes)) + 1]
      randomMessage ==
        randomType.messages[FloorTimes(d.msg, Len(randomType.messages)) + 1]
  IN  [id |-> now * RandDen + d.idf,
       type |-> randomType.type,
       icon |-> randomType.icon,
       color |-> randomType.color,
       message |-> randomMessage,
       timestamp |-> now,
       severity |-> IF RandomAbove(d.sev1, 7) \/ (now \div 1000) % 2 = 1
                    THEN "high"
                    ELSE IF RandomAbove(d.sev2, 4) THEN "medium" ELSE "low",
       read |-> FALSE,
       seq |-> seq,
       draw |-> d]

\* generateAlert() called at time now with draws d.  Two fields are history,
\* not JS fields: seq is the ordinal of the created object among all alerts
\* created (object identity), draw the draws the call made.
generateAlert(now, d, seq) ==
  LET randomType == alertTypes[FloorTimes(d.type, Len(alertTypes)) + 1]
      randomMessage ==
        randomType.messages[FloorTimes(d.msg, Len(randomType.messages)) + 1]
  IN  [id |-> now * RandDen + d.idf,
       type |-> randomType.type,
       icon |-> randomType.icon,
       color |-> randomType.color,
       message |-> randomMessage,
       timestamp |-> now,
       severity |-> IF RandomAbove(d.sev1, 7) THEN "high"
                    ELSE IF RandomAbove(d.sev2, 4) THEN "medium" ELSE "low",
       read |-> FALSE,
       seq |-> seq,
       draw |-> d]

---------------------------------------------------------------------------
(* generateMetricsData *)

\* The four Math.random() calls of one generateMetricsData(), in call order.
SampleDraw == [ai : Rand, qo : Rand, cs : Rand, re : Rand]

generateMetricsData(now, d) ==
  [timestamp |-> ToLocaleTimeString(now),
   ai_predictions |-> FloorTimes(d.ai, 20) + 80,
   quantum_operations |-> FloorTimes(d.qo, 15) + 25,
   crisis_score |-> FloorTimes(d.cs, 30) + 40,
   response_efficiency |-> FloorTimes(d.re, 20) + 75]

---------------------------------------------------------------------------
(* Array helpers *)

\* prev.slice(0, n)
SliceHead(s, n) == SubSeq(s, 1, MathMin(n, Len(s)))

\* prev.slice(-n)
SliceTail(s, n) == SubSeq(s, MathMax(1, Len(s) - n + 1), Len(s))

\* Mutant: prev.slice(0, 10), an off-by-one in the kept prefix.
PushAlertKeepsTen(prev, newAlert) == <<newAlert>> \o SliceHead(prev, 10)

\* Mutant: [...prev.slice(-9), newAlert], the alert appended at the end.
PushAlertAtEnd(prev, newAlert) == SliceTail(prev, AlertKeep) \o <<newAlert>>

\* setAlerts(prev => [newAlert, ...prev.slice(0, 9)])
\* Mutant: setAlerts([newAlert, ...alerts.slice(0, 9)]) with the alerts of
\* the render the effect closed over, the empty initial array.
PushAlertStale(prev, newAlert) == <<newAlert>>

\* Mutant: the updater keeps 8 old alerts, evicting below capacity.
PushAlertKeepsEight(prev, newAlert) == <<newAlert>> \o SliceHead(prev, 8)

\* Mutant: the updater runs its insertion twice.
PushAlertTwice(prev, newAlert) ==
  <<newAlert, newAlert>> \o SliceHead(prev, AlertKeep - 1)

PushAlert(prev, newAlert) == <<newAlert>> \o SliceHead(prev, AlertKeep)

\* Mutant: [...prev.slice(0, 9), newData], the first nine samples kept.
PushDataKeepsFirst(prev, newData) == SliceHead(prev, DataKeep) \o <<newData>>

\* setLiveData(prev => [...prev.slice(-9), newData])
PushData(prev, newData) == SliceTail(prev, DataKeep) \o <<newData>>

\* Mutant: prev.filter(alert => alert.id < alertId), which also drops the
\* alerts created after the dismissed one.
FilterOutFrom(prev, alertId) ==
  LET Older(a) == a.id < alertId IN SelectSeq(prev, Older)

\* prev.filter(alert => alert.id !== alertId)
RECURSIVE FilterOut(_, _)
FilterOut(prev, alertId) ==
  IF prev = << >> THEN << >>
  ELSE IF Head(prev).id # alertId
       THEN <<Head(prev)>> \o FilterOut(Tail(prev), alertId)
       ELSE FilterOut(Tail(prev), alertId)

\* Mutant: read: !alert.read, a toggle.
MapReadToggle(prev, alertId) ==
  [i \in 1..Len(prev) |->
     IF prev[i].id = alertId
     THEN [prev[i] EXCEPT !.read = ~prev[i].read] ELSE prev[i]]

\* Mutant: the test on the id dropped, every alert marked read.
MapReadAll(prev, alertId) ==
  [i \in 1..Len(prev) |-> [prev[i] EXCEPT !.read = TRUE]]

\* prev.map(alert => alert.id === alertId ? { ...alert, read: true } : alert)
MapRead(prev, alertId) ==
  [i \in 1..Len(prev) |->
     IF prev[i].id = alertId THEN [prev[i] EXCEPT !.read = TRUE] ELSE prev[i]]

---------------------------------------------------------------------------
(* System metrics *)

MetricNames == {"ai_accuracy", "quantum_efficiency", "active_predictions",
                "crisis_alerts", "response_time"}

\* The five Math.random() calls of one setSystemMetrics updater.
MetricDraw == [MetricNames -> Rand]

InitialMetrics ==
  [ai_accuracy |-> Fixed(942),
   quantum_efficiency |-> Fixed(875),
   active_predictions |-> Fixed(1560),
   crisis_alerts |-> Fixed(80),
   response_time |-> Fixed(23),
   uptime |-> Fixed(998)]

NextAiAccuracy(v, k) ==
  MathMax(Fixed(900), MathMin(Fixed(990), v + Centered(k, 20)))

NextQuantumEfficiency(v, k) ==
  MathMax(Fixed(800), MathMin(Fixed(950), v + Centered(k, 30)))

NextActivePredictions(v, k) ==
  MathMax(Fixed(1000), MathMin(Fixed(2000), v + MathFloor(Centered(k, 100))))

\* Mutant: the jitter of crisis_alerts is added without Math.floor.
NextCrisisAlertsUnfloored(v, k) ==
  MathMax(Fixed(0), MathMin(Fixed(200), v + Centered(k, 20)))

NextCrisisAlerts(v, k) ==
  MathMax(Fixed(0), MathMin(Fixed(200), v + MathFloor(Centered(k, 20))))

\* Mutant: Math.min(5, ...) alone, the lower clamp forgotten.
NextResponseTimeNoMax(v, k) == MathMin(Fixed(50), v + Centered(k, 5))

NextResponseTime(v, k) ==
  MathMax(Fixed(10), MathMin(Fixed(50), v + Centered(k, 5)))

UpdateMetrics(prev, dv) ==
  [prev EXCEPT
     !.ai_accuracy = NextAiAccuracy(prev.ai_accuracy, dv["ai_accuracy"]),
     !.quantum_efficiency =
        NextQuantumEfficiency(prev.quantum_efficiency, dv["quantum_efficiency"]),
     !.active_predictions =
        NextActivePredictions(prev.active_predictions, dv["active_predictions"]),
     !.crisis_alerts = NextCrisisAlerts(prev.crisis_alerts, dv["crisis_alerts"]),
     !.response_time = NextResponseTime(prev.response_time, dv["response_time"])]

---------------------------------------------------------------------------
(* The three intervals of the effect: TRUE while the interval is registered *)

TimerNames == {"alertInterval", "metricsInterval", "connectionInterval"}

NoTimers == [t \in TimerNames |-> FALSE]

\* The three setInterval calls of the effect.
SetIntervals(ts) == [t \in TimerNames |-> TRUE]

\* Mutant: the cleanup leaves connectionInterval registered.
ClearTwoIntervals(ts) ==
  [ts EXCEPT !["alertInterval"] = FALSE, !["metricsInterval"] = FALSE]

\* The three clearInterval calls of the cleanup; clearing an interval that
\* is not registered does nothing.
ClearIntervals(ts) ==
  [ts EXCEPT !["alertInterval"] = FALSE, !["metricsInterval"] = FALSE,
             !["connectionInterval"] = FALSE]

---------------------------------------------------------------------------
(* ChampionshipDashboard and WorldMap: state after construction *)

\* useState of ChampionshipDashboard.  timers holds, for the two intervals
\* and the timeout of its effect, whether the timer is still to fire;
\* metricTicks counts the runs of the metrics interval callback.
InitialChampionship ==
  [phase |-> "constructed",
   metrics |-> [predictionsToday |-> 0,
                quantumOptimizations |-> 0,
                crisisAlertsActive |-> 0,
                regionsMonitored |-> 12,
                systemHealth |-> Fixed(987),
                quantumAdvantage |-> Fixed(234)],
   liveAlerts |-> << >>,
   isLoading |-> TRUE,
   timers |-> [interval |-> FALSE, alertInterval |-> FALSE, timeout |-> FALSE],
   metricTicks |-> 0]

\* The list the alert interval callback of ChampionshipDashboard sets.
ChampionshipAlerts ==
  << [id |-> 1, region |-> "Maharashtra", type |-> "Drought Warning",
      severity |-> "high", time |-> "2 min ago"],
     [id |-> 2, region |-> "West Bengal", type |-> "Flood Alert",
      severity |-> "critical", time |-> "5 min ago"],
     [id |-> 3, region |-> "Rajasthan", type |-> "Heat Wave",
      severity |-> "warning", time |-> "8 min ago"] >>

\* The value null of a state that holds no object yet.
Null == [kind |-> "null"]

\* useState of WorldMap.  refreshTimeout: the setTimeout of refreshData is
\* still to fire.
InitialWorldMap ==
  [phase |-> "constructed",
   crisisHotspots |-> << >>,
   selectedCrisis |-> Null,
   mapLayers |-> [temperature |-> TRUE, rainfall |-> TRUE,
                  population |-> TRUE, food_security |-> TRUE],
   isLoading |-> FALSE,
   refreshTimeout |-> FALSE,
   refreshed |-> FALSE]

\* The list generateCrisisHotspots sets (the fields the views compute with).
hotspots ==
  << [id |-> 1, name |-> "Horn of Africa", severity |-> "critical",
      type |-> "drought", risk_score |-> Fixed(92)],
     [id |-> 2, name |-> "Bangladesh Delta", severity |-> "high",
      type |-> "flooding", risk_score |-> Fixed(81)],
     [id |-> 3, name |-> "Sahel Region", severity |-> "high",
      type |-> "desertification", risk_score |-> Fixed(78)],
     [id |-> 4, name |-> "Central America", severity |-> "medium",
      type |-> "hurricane", risk_score |-> Fixed(65)],
     [id |-> 5, name |-> "Australian Outback", severity |-> "medium",
      type |-> "wildfire", risk_score |-> Fixed(62)] >>

---------------------------------------------------------------------------
(* The components that call the backend: state after construction.        *)
(* Besides its useState values each holds three histories: handler, the   *)
(* state of the promise of the latest call of its async handler (idle:    *)
(* never called, pending, resolved, rejected); outcome, how the backend   *)
(* call of that handler ended (none, success, failure); requests, the     *)
(* number of calls of the handler so far.  Yields and costs are in        *)
(* tenths, scores in hundredths.                                          *)

InitialCrisisPredictor ==
  [prediction |-> Null, loading |-> FALSE,
   handler |-> "idle", outcome |-> "none", requests |-> 0]

InitialAdvancedAIPredictor ==
  [prediction |-> Null, isLoading |-> FALSE, predictionHistory |-> << >>,
   handler |-> "idle", outcome |-> "none", requests |-> 0]

InitialQuantumOptimizer ==
  [optimization |-> Null, loading |-> FALSE,
   handler |-> "idle", outcome |-> "none", requests |-> 0]

InitialDashboard ==
  [dashboardData |-> Null, loading |-> TRUE,
   handler |-> "idle", outcome |-> "none", requests |-> 0]

InitialDataExplorer ==
  [climateData |-> << >>, cropData |-> << >>, loading |-> TRUE,
   handler |-> "idle", outcome |-> "none", requests |-> 0,
   loadedReal |-> FALSE]

\* The fallback of CrisisPredictor.handlePredict.
FallbackPrediction ==
  [predicted_yield |-> 2854,
   confidence_score |-> 87,
   risk_level |-> "medium",
   recommendations |-> << "Monitor crop conditions closely",
                          "Implement water conservation measures",
                          "Increase regional monitoring frequency" >>]

\* The fallback of QuantumOptimizer.handleOptimize (each stop without its
\* coordinates and resources).
FallbackOptimization ==
  [optimized_routes |->
     << [stop |-> 1, location |-> "Distribution Center", type |-> "depot",
         priority |-> 1, estimated_time |-> 0],
        [stop |-> 2, location |-> "Refugee Camp Alpha", type |-> "crisis",
         priority |-> 3, estimated_time |-> 45],
        [stop |-> 3, location |-> "Hospital Beta", type |-> "medical",
         priority |-> 2, estimated_time |-> 75] >>,
   total_cost |-> 2458,
   efficiency_gain |-> 185,
   quantum_info |->
     [algorithm |-> "QAOA (Quantum Approximate Optimization Algorithm)",
      quantum_advantage |-> "18.5% improvement over classical",
      circuit_depth |-> 4,
      execution_time |-> 8]]

\* The fallback of Dashboard.loadDashboardData.
FallbackDashboard ==
  [summary |-> [avg_temperature |-> 245, avg_yield |-> 2857,
                total_regions |-> 12, active_predictions |-> 45,
                quantum_optimizations |-> 23],
   recent_predictions |->
     << [region |-> "Asia-Pacific", yield |-> 2854, risk |-> "medium"],
        [region |-> "Europe", yield |-> 3128, risk |-> "low"],
        [region |-> "North America", yield |-> 2982, risk |-> "low"],
        [region |-> "Africa", yield |-> 2015, risk |-> "high"] >>]

\* The two fallbacks of DataExplorer.loadData.
FallbackClimate ==
  << [Date |-> "2023-01", temperature |-> 225, rainfall_mm |-> 85],
     [Date |-> "2023-02", temperature |-> 241, rainfall_mm |-> 92],
     [Date |-> "2023-03", temperature |-> 263, rainfall_mm |-> 78],
     [Date |-> "2023-04", temperature |-> 287, rainfall_mm |-> 65],
     [Date |-> "2023-05", temperature |-> 312, rainfall_mm |-> 45],
     [Date |-> "2023-06", temperature |-> 338, rainfall_mm |-> 32] >>

FallbackCrops ==
  << [region |-> "Asia-Pacific", yield_tonnes |-> 2854, year |-> 2023],
     [region |-> "Europe", yield_tonnes |-> 3128, year |-> 2023],
     [region |-> "North America", yield_tonnes |-> 2982, year |-> 2023],
     [region |-> "Africa", yield_tonnes |-> 2015, year |-> 2023],
     [region |-> "South America", yield_tonnes |-> 2679, year |-> 2023] >>

---------------------------------------------------------------------------
(* The component *)

Init ==
  /\ phase = "constructed"
  /\ alerts = << >>
  /\ systemMetrics = InitialMetrics
  /\ liveData = << >>
  /\ isConnected = TRUE
  /\ alertTicks = 0
  /\ metricsTicks = 0
  /\ userOps = 0
  /\ nextSeq = 1
  /\ issued = {}
  /\ pushed = << >>
  /\ timers = NoTimers
  /\ cleanups = 0
  /\ championshipDashboard = InitialChampionship
  /\ worldMap = InitialWorldMap
  /\ crisisPredictor = InitialCrisisPredictor
  /\ advancedAIPredictor = InitialAdvancedAIPredictor
  /\ quantumOptimizer = InitialQuantumOptimizer
  /\ dashboard = InitialDashboard
  /\ dataExplorer = InitialDataExplorer

\* The body of useEffect: the seeds, then the registration of the intervals.
\* src.mountAlerts: the draws of the three generateAlert() calls;
\* src.mountClock: how far Date.now() has advanced at each of those calls;
\* src.mountData: the draws of the ten generateMetricsData() calls.
Mount(src) ==
  /\ phase = "constructed"
  /\ \E ds \in src.mountAlerts, cs \in src.mountClock, ss \in src.mountData :
       LET initialAlerts ==
             [i \in 1..InitialAlerts |->
                generateAlert(StartTime + cs[i], ds[i], i)]
           now == StartTime + cs[InitialAlerts]
           initialData ==
             [i \in 1..InitialData |->
                [generateMetricsData(now, ss[i]) EXCEPT
                   !.timestamp =
                      ToLocaleTimeString(now - (9 - (i - 1)) * Minute)]]
       IN  /\ alerts' = initialAlerts
           /\ liveData' = initialData
           /\ issued' = {initialAlerts[i].id : i \in 1..InitialAlerts}
           /\ pushed' = initialData
  /\ nextSeq' = InitialAlerts + 1
  /\ phase' = "mounted"
  /\ timers' = SetIntervals(timers)
  /\ UNCHANGED <<systemMetrics, isConnected, alertTicks, metricsTicks, userOps,
                 cleanups>>
  /\ UNCHANGED outsideRealTime

\* The number of alerts the alertInterval callback has pushed so far.
TickPushes == nextSeq - (InitialAlerts + 1)

\* The events so far other than pushes: runs of the alertInterval callback
\* that did not pass the gate, runs of the metricsInterval callback, clicks.
OtherEvents == (alertTicks - TickPushes) + metricsTicks + userOps

\* The alertInterval callback: src.maxPushes bounds its runs that pass the
\* gate, src.maxEvents the other events.  Its n-th run is at StartTime + n*AlertPeriod.
AlertTick(src) ==
  /\ timers["alertInterval"]
  /\ alertTicks' = alertTicks + 1
  /\ \E g \in src.gate :
       IF RandomAbove(g, 7)
       THEN /\ TickPushes < src.maxPushes
            /\ \E d \in src.alert :
                 LET newAlert ==
                       generateAlert(StartTime + (alertTicks + 1) * AlertPeriod,
                                     d, nextSeq)
                 IN  /\ alerts' = PushAlert(alerts, newAlert)
                     /\ issued' = issued \cup {newAlert.id}
                     /\ nextSeq' = nextSeq + 1
       ELSE /\ OtherEvents < src.maxEvents
            /\ UNCHANGED <<alerts, issued, nextSeq>>
  /\ UNCHANGED <<phase, systemMetrics, liveData, isConnected, metricsTicks,
                 userOps, pushed, timers, cleanups>>
  /\ UNCHANGED outsideRealTime

\* Mutant: the metricsInterval callback returns at once while disconnected.
MetricsTickWhenConnected(src) ==
  /\ timers["metricsInterval"]
  /\ OtherEvents < src.maxEvents
  /\ metricsTicks' = metricsTicks + 1
  /\ IF isConnected
     THEN \E s \in src.data, dv \in src.metric :
            LET newData ==
                  generateMetricsData(StartTime + (metricsTicks + 1) * MetricsPeriod, s)
            IN  /\ liveData' = PushData(liveData, newData)
                /\ pushed' = Append(pushed, newData)
                /\ systemMetrics' = UpdateMetrics(systemMetrics, dv)
     ELSE UNCHANGED <<liveData, pushed, systemMetrics>>
  /\ UNCHANGED <<phase, alerts, isConnected, alertTicks, userOps, nextSeq, issued,
                 timers, cleanups>>
  /\ UNCHANGED outsideRealTime

\* The metricsInterval callback; its n-th run is at StartTime + n*MetricsPeriod.
MetricsTick(src) ==
  /\ timers["metricsInterval"]
  /\ OtherEvents < src.maxEvents
  /\ metricsTicks' = metricsTicks + 1
  /\ \E s \in src.data, dv \in src.metric :
       LET newData ==
             generateMetricsData(StartTime + (metricsTicks + 1) * MetricsPeriod, s)
       IN  /\ liveData' = PushData(liveData, newData)
           /\ pushed' = Append(pushed, newData)
           /\ systemMetrics' = UpdateMetrics(systemMetrics, dv)
  /\ UNCHANGED <<phase, alerts, isConnected, alertTicks, userOps, nextSeq, issued,
                 timers, cleanups>>
  /\ UNCHANGED outsideRealTime

\* The connectionInterval callback.
ConnectionTick(src) ==
  /\ timers["connectionInterval"]
  /\ \E c \in src.conn : isConnected' = RandomAbove(c, 1)
  /\ UNCHANGED <<phase, alerts, systemMetrics, liveData, alertTicks,
                 metricsTicks, userOps, nextSeq, issued, pushed, timers, cleanups>>
  /\ UNCHANGED outsideRealTime

\* The function the effect returns.  React runs it at unmount; a further
\* run of it is a second stop.
Cleanup ==
  /\ phase \in {"mounted", "unmounted"}
  /\ cleanups < MaxCleanups
  /\ cleanups' = cleanups + 1
  /\ timers' = ClearIntervals(timers)
  /\ phase' = "unmounted"
  /\ UNCHANGED <<alerts, systemMetrics, liveData, isConnected, alertTicks,
                 metricsTicks, userOps, nextSeq, issued, pushed>>
  /\ UNCHANGED outsideRealTime

\* An id that generateAlert never produces (Date.now() is positive).
UnknownId == 0

\* The rendered alerts a click lands on: the first, a middle and the last.
ClickPositions ==
  {1, (Len(alerts) + 1) \div 2, Len(alerts)} \cap (1..Len(alerts))

\* The ids a click handler can pass: that of a rendered alert, that of an
\* alert no longer in the queue (a click on a stale render), or an unknown id.
ClickIds ==
  {alerts[i].id : i \in ClickPositions}
    \cup (issued \ {alerts[i].id : i \in 1..Len(alerts)})
    \cup {UnknownId}

dismissAlert(alertId) ==
  /\ phase = "mounted"
  /\ alerts' = FilterOut(alerts, alertId)
  /\ UNCHANGED <<phase, systemMetrics, liveData, isConnected, alertTicks,
                 metricsTicks, nextSeq, issued, pushed, timers, cleanups>>
  /\ UNCHANGED outsideRealTime

markAsRead(alertId) ==
  /\ phase = "mounted"
  /\ alerts' = MapRead(alerts, alertId)
  /\ UNCHANGED <<phase, systemMetrics, liveData, isConnected, alertTicks,
                 metricsTicks, nextSeq, issued, pushed, timers, cleanups>>
  /\ UNCHANGED outsideRealTime

DismissClick(src) ==
  /\ OtherEvents < src.maxEvents
  /\ userOps' = userOps + 1
  /\ \E alertId \in ClickIds : dismissAlert(alertId)

ReadClick(src) ==
  /\ OtherEvents < src.maxEvents
  /\ userOps' = userOps + 1
  /\ \E alertId \in ClickIds : markAsRead(alertId)

---------------------------------------------------------------------------
(* Sources of randomness and run lengths *)

Lo == 0

Mid == RandDen \div 2

Hi == RandDen - 1

\* All draws of one call equal to k.
AlertConst(k) == [type |-> k, msg |-> k, idf |-> k, sev1 |-> k, sev2 |-> k]

SampleConst(k) == [ai |-> k, qo |-> k, cs |-> k, re |-> k]

MetricConst(k) == [m \in MetricNames |-> k]

\* Long alert histories: the queue fills and overflows.
QueueSrc ==
  [mountAlerts |-> { <<AlertConst(Lo), AlertConst(Mid), AlertConst(Hi)>>,
                     <<AlertConst(Lo), AlertConst(Lo), AlertConst(Hi)>> },
   mountClock |-> { <<0, 0, 0>>, <<0, 0, 1>> },
   mountData |-> { [i \in 1..InitialData |-> SampleConst(Mid)] },
   gate |-> {Lo, Hi},
   alert |-> {AlertConst(Mid)},
   data |-> {SampleConst(Mid)},
   metric |-> {MetricConst(Mid)},
   conn |-> {Lo, Hi},
   maxPushes |-> MaxPushes,
   maxEvents |-> MaxQueueEvents]

NextQueue ==
  \/ Mount(QueueSrc)
  \/ AlertTick(QueueSrc)
  \/ MetricsTick(QueueSrc)
  \/ ConnectionTick(QueueSrc)
  \/ DismissClick(QueueSrc)
  \/ ReadClick(QueueSrc)

SpecQueue == Init /\ [][NextQueue]_vars

\* Draws that move some metrics up and the others down.
MetricSplit(up) == [m \in MetricNames |-> IF m \in up THEN Hi ELSE Lo]

\* Long metric histories: every metric walks to the ends of its range.
MetricsSrc ==
  [mountAlerts |-> { <<AlertConst(Lo), AlertConst(Mid), AlertConst(Hi)>> },
   mountClock |-> { <<0, 0, 0>> },
   mountData |-> { [i \in 1..InitialData |-> SampleConst((i - 1) % RandDen)] },
   gate |-> {Lo, Hi},
   alert |-> {AlertConst(Mid)},
   data |-> {SampleConst(Hi)},
   metric |-> { MetricConst(Lo), MetricConst(Mid), MetricConst(Hi),
                MetricSplit({"ai_accuracy", "active_predictions"}),
                MetricSplit({"quantum_efficiency", "crisis_alerts",
                             "response_time"}) },
   conn |-> {Lo, Hi},
   maxPushes |-> 0,
   maxEvents |-> MaxMetricsTicks]

NextMetrics ==
  \/ Mount(MetricsSrc)
  \/ MetricsTick(MetricsSrc)
  \/ ConnectionTick(MetricsSrc)

SpecMetrics == Init /\ [][NextMetrics]_vars

---------------------------------------------------------------------------
(* Claims *)

AlertIndex == 1..Len(alerts)

\* A step in which the alertInterval callback pushed a new alert.
PushStep == phase = "mounted" /\ nextSeq' = nextSeq + 1

\* The creation ordinals of the alerts in a queue.
SeqsOf(q) == {q[i].seq : i \in 1..Len(q)}

\* C1: after mount, under any interleaving of alert ticks, metrics ticks,
\* dismissAlert and markAsRead, the alerts queue and the liveData queue each
\* hold at most 10 elements.
C1_QueuesAtMostTen ==
  phase = "mounted" => Len(alerts) <= 10 /\ Len(liveData) <= 10

\* A full alerts queue after an eviction, a metrics tick and a click.
C1_Witness ==
  /\ Len(alerts) = 10
  /\ nextSeq > 11
  /\ Len(liveData) = 10
  /\ metricsTicks > 0
  /\ userOps > 0

\* C2: after k > 10 pushes into liveData the queue holds exactly 10 samples,
\* the last 10 pushed, in push order; after 13 distinct pushes it holds
\* samples 4..13 in order and samples 1..3 are gone.
C2_LastTenPushed ==
  /\ Len(pushed) > 10 =>
       /\ Len(liveData) = 10
       /\ \A i \in 1..10 : liveData[i] = pushed[Len(pushed) - 10 + i]
  /\ (/\ Len(pushed) = 13
      /\ \A i, j \in 1..13 : i # j => pushed[i] # pushed[j]) =>
       /\ liveData = [i \in 1..10 |-> pushed[i + 3]]
       /\ \A k \in 1..3 : \A i \in 1..Len(liveData) : liveData[i] # pushed[k]

\* Thirteen distinct samples have been pushed.
C2_Witness ==
  /\ Len(pushed) = 13
  /\ \A i, j \in 1..13 : i # j => pushed[i] # pushed[j]
  /\ metricsTicks = 3

\* C3 as stated: a push appends at the tail and evicts from the head, so the
\* alerts sequence is always ordered oldest-first to newest-last.
C3_OldestFirst ==
  \A i, j \in AlertIndex : i < j => alerts[i].seq < alerts[j].seq

\* Every alert pushed by a tick stands before all alerts older than it, and
\* the alerts seeded at mount stand last, in the order they were created.
NewestFirstThenSeeds(q) ==
  \A i, j \in 1..Len(q) :
    i < j => /\ q[j].seq > 3 => q[i].seq > q[j].seq
             /\ q[i].seq <= 3 => q[i].seq < q[j].seq

\* C3, amended: a push puts the new alert at the front (index 0) and, when the
\* size would exceed 10, drops from the end, so that in every reachable state
\* the alerts pushed by ticks are ordered newest-first to oldest-last and stand
\* before the alerts seeded at mount.
C3_NewestFirst ==
  [][/\ NewestFirstThenSeeds(alerts')
     /\ PushStep =>
          /\ alerts'[1].seq = nextSeq
          /\ Len(alerts') = (IF Len(alerts) < 10 THEN Len(alerts) + 1 ELSE 10)
          /\ \A i \in 2..Len(alerts') : alerts'[i] = alerts[i - 1]]_vars

\* A full queue after an eviction, the newest alert at the front.
C3_Witness ==
  /\ Len(alerts) = 10
  /\ nextSeq > 11
  /\ alerts[1].seq = nextSeq - 1
  /\ alerts[10].seq <= 3

\* C4: the relative insertion order of the alerts that remain never changes;
\* a push onto fewer than 10 alerts removes nothing; a push onto a full queue
\* removes exactly the alert inserted earliest among those present.
C4_FifoEviction ==
  [][/\ \A i, j \in AlertIndex : \A k, l \in 1..Len(alerts') :
          (/\ alerts[i].seq = alerts'[k].seq
           /\ alerts[j].seq = alerts'[l].seq
           /\ i < j) => k < l
     /\ (PushStep /\ Len(alerts) < 10) => SeqsOf(alerts) \subseteq SeqsOf(alerts')
     /\ (PushStep /\ Len(alerts) = 10) =>
          \E i \in AlertIndex :
            /\ \A j \in AlertIndex : alerts[i].seq <= alerts[j].seq
            /\ SeqsOf(alerts) \ SeqsOf(alerts') = {alerts[i].seq}]_vars

\* C5: dismissAlert(id) removes the alert with that id if it is present and
\* leaves every other alert and their order unchanged; when no alert has that
\* id (a second dismissAlert of the same id included) the queue is unchanged.
C5_DismissRemovesOnlyThatId ==
  [][\A id \in ClickIds :
       (dismissAlert(id) /\ userOps' = userOps + 1) =>
         LET Other(a) == a.id # id
         IN  /\ \A k \in 1..Len(alerts') : alerts'[k].id # id
             /\ alerts' = SelectSeq(alerts, Other)
             /\ (\A i \in AlertIndex : alerts[i].id # id) => alerts' = alerts
             /\ UNCHANGED <<liveData, systemMetrics, isConnected>>]_vars

\* An alert was dismissed: an issued id is gone although nothing was evicted.
C5_Witness ==
  /\ nextSeq <= 11
  /\ userOps = 2
  /\ \E id \in issued : \A i \in AlertIndex : alerts[i].id # id
  /\ Len(alerts) >= 2

\* C6: once an alert's read flag is true it stays true as long as the alert is
\* in the queue; the flag only changes from false to true.
C6_ReadNeverReverts ==
  [][\A i \in AlertIndex : \A k \in 1..Len(alerts') :
       (alerts[i].seq = alerts'[k].seq /\ alerts[i].read) => alerts'[k].read]_vars

\* A read alert that is still in the queue after later pushes filled it.
C6_Witness ==
  /\ Len(alerts) = 10
  /\ userOps = 2
  /\ \E i \in AlertIndex : alerts[i].read /\ i > 1

\* C7: markAsRead(id) sets read on the alert with that id when it is present
\* and unread, and changes nothing else: length, order, every other alert and
\* the other fields of the matched alert; for an unknown id or an already-read
\* alert the queue is unchanged.
C7_MarkAsReadFrame ==
  [][\A id \in ClickIds :
       (markAsRead(id) /\ userOps' = userOps + 1) =>
         /\ Len(alerts') = Len(alerts)
         /\ \A i \in AlertIndex :
              /\ alerts'[i].id = alerts[i].id
              /\ alerts'[i].type = alerts[i].type
              /\ alerts'[i].message = alerts[i].message
              /\ alerts'[i].severity = alerts[i].severity
              /\ alerts'[i].timestamp = alerts[i].timestamp
              /\ alerts'[i].icon = alerts[i].icon
              /\ alerts'[i].color = alerts[i].color
              /\ alerts'[i].seq = alerts[i].seq
              /\ alerts'[i].read = (alerts[i].read \/ alerts[i].id = id)
              /\ alerts[i].id # id => alerts'[i] = alerts[i]
         /\ (\A i \in AlertIndex : alerts[i].id = id => alerts[i].read) =>
              alerts' = alerts
         /\ UNCHANGED <<liveData, systemMetrics, isConnected>>]_vars

\* One alert has been marked read while others are still unread.
C7_Witness ==
  /\ userOps > 0
  /\ \E i \in AlertIndex : alerts[i].read
  /\ \E i \in AlertIndex : ~alerts[i].read

\* C8: after any number of metrics ticks ai_accuracy is in [90,99],
\* quantum_efficiency in [80,95], active_predictions in [100,200],
\* crisis_alerts in [0,20] and response_time in [1,5].
C8_MetricsInRange ==
  /\ 90 * Scale <= systemMetrics.ai_accuracy
  /\ systemMetrics.ai_accuracy <= 99 * Scale
  /\ 80 * Scale <= systemMetrics.quantum_efficiency
  /\ systemMetrics.quantum_efficiency <= 95 * Scale
  /\ 100 * Scale <= systemMetrics.active_predictions
  /\ systemMetrics.active_predictions <= 200 * Scale
  /\ 0 <= systemMetrics.crisis_alerts
  /\ systemMetrics.crisis_alerts <= 20 * Scale
  /\ 1 * Scale <= systemMetrics.response_time
  /\ systemMetrics.response_time <= 5 * Scale

\* Every metric has been driven down to the lower end of its range.
C8_Witness ==
  /\ systemMetrics.ai_accuracy = 90 * Scale
  /\ systemMetrics.quantum_efficiency = 80 * Scale
  /\ systemMetrics.active_predictions = 100 * Scale
  /\ systemMetrics.crisis_alerts = 0
  /\ systemMetrics.response_time = 1 * Scale

Abs(x) == IF x >= 0 THEN x ELSE -x

\* How far a metrics tick moved metric m.
Moved(m) == Abs(systemMetrics'[m] - systemMetrics[m])

\* C9: one metrics tick changes ai_accuracy by at most 1.0, quantum_efficiency
\* by at most 1.5, active_predictions by at most 5, crisis_alerts by at most 1
\* and response_time by at most 0.25; from ai_accuracy = 94.2 one tick yields a
\* value in [93.2, 95.2].
C9_TickMovesAtMostHalfDelta ==
  [][metricsTicks' = metricsTicks + 1 =>
       /\ Moved("ai_accuracy") <= Scale
       /\ 2 * Moved("quantum_efficiency") <= 3 * Scale
       /\ Moved("active_predictions") <= 5 * Scale
       /\ Moved("crisis_alerts") <= Scale
       /\ 4 * Moved("response_time") <= Scale
       /\ 10 * systemMetrics.ai_accuracy = 942 * Scale =>
            /\ 932 * Scale <= 10 * systemMetrics'.ai_accuracy
            /\ 10 * systemMetrics'.ai_accuracy <= 952 * Scale]_vars

\* The first tick took ai_accuracy from 94.2 down by the full 1.0.
C9_Witness ==
  /\ metricsTicks = 1
  /\ 10 * systemMetrics.ai_accuracy = 932 * Scale

\* Whether some draw moves a value up, and some draw moves it down.
CanRiseAndFall(v, Step(_, _)) ==
  /\ \E k \in Rand : Step(v, k) > v
  /\ \E k \in Rand : Step(v, k) < v

\* C10: each tick clamps old + d with d drawn from the symmetric interval
\* [-delta/2, +delta/2], so from a value strictly inside its range each of the
\* five metrics can be moved up by a tick and can be moved down by a tick.
C10_EveryMetricCanRiseAndFall ==
  LET m == systemMetrics
  IN  phase = "mounted" =>
      /\ (90 * Scale < m.ai_accuracy /\ m.ai_accuracy < 99 * Scale) =>
           CanRiseAndFall(m.ai_accuracy, NextAiAccuracy)
      /\ (80 * Scale < m.quantum_efficiency /\ m.quantum_efficiency < 95 * Scale) =>
           CanRiseAndFall(m.quantum_efficiency, NextQuantumEfficiency)
      /\ (100 * Scale < m.active_predictions /\ m.active_predictions < 200 * Scale) =>
           CanRiseAndFall(m.active_predictions, NextActivePredictions)
      /\ (0 < m.crisis_alerts /\ m.crisis_alerts < 20 * Scale) =>
           CanRiseAndFall(m.crisis_alerts, NextCrisisAlerts)
      /\ (1 * Scale < m.response_time /\ m.response_time < 5 * Scale) =>
           CanRiseAndFall(m.response_time, NextResponseTime)

\* A short life of the component, from mount to after its unmount.
LifecycleSrc ==
  [mountAlerts |-> { <<AlertConst(Lo), AlertConst(Mid), AlertConst(Hi)>> },
   mountClock |-> { <<0, 0, 0>> },
   mountData |-> { [i \in 1..InitialData |-> SampleConst(Mid)] },
   gate |-> {Lo, Hi},
   alert |-> {AlertConst(Mid)},
   data |-> {SampleConst(Lo), SampleConst(Hi)},
   metric |-> {MetricConst(Lo), MetricConst(Hi)},
   conn |-> {Lo, Hi},
   maxPushes |-> MaxStopPushes,
   maxEvents |-> MaxStopEvents]

NextLifecycle ==
  \/ Mount(LifecycleSrc)
  \/ AlertTick(LifecycleSrc)
  \/ MetricsTick(LifecycleSrc)
  \/ ConnectionTick(LifecycleSrc)
  \/ DismissClick(LifecycleSrc)
  \/ ReadClick(LifecycleSrc)
  \/ Cleanup

SpecLifecycle == Init /\ [][NextLifecycle]_vars

---------------------------------------------------------------------------
(* The generator under many draws, in short lives of the component *)

\* The draws on either side of the severity thresholds 0.4 and 0.7, and the
\* two ends.
SeverityEdges ==
  {Lo, (4 * RandDen) \div 10, (4 * RandDen) \div 10 + 1,
   (7 * RandDen) \div 10, (7 * RandDen) \div 10 + 1, Hi}

\* Every pair of severity draws about the thresholds with a middle type and
\* message, and every type draw and every message draw with a middle severity.
GeneratorDraws ==
  [type : {Mid}, msg : {Mid}, idf : {Mid},
   sev1 : SeverityEdges, sev2 : SeverityEdges]
    \cup [type : Rand, msg : {Lo, Hi}, idf : {Mid}, sev1 : {Mid}, sev2 : {Mid}]
    \cup [type : {Lo}, msg : Rand, idf : {Mid}, sev1 : {Mid}, sev2 : {Mid}]

GeneratorSrc ==
  [mountAlerts |-> { <<AlertConst(Lo), AlertConst(Mid), AlertConst(Hi)>>,
                     <<AlertConst(Mid), AlertConst(Mid), AlertConst(Hi)>> },
   mountClock |-> { <<0, 0, 0>> },
   mountData |-> { [i \in 1..InitialData |-> SampleConst(Mid)] },
   gate |-> {Lo, Hi},
   alert |-> GeneratorDraws,
   data |-> {SampleConst(Mid)},
   metric |-> {MetricConst(Mid)},
   conn |-> {Lo, Hi},
   maxPushes |-> MaxGeneratorPushes,
   maxEvents |-> MaxGeneratorEvents]

NextGenerator ==
  \/ Mount(GeneratorSrc)
  \/ AlertTick(GeneratorSrc)
  \/ ReadClick(GeneratorSrc)

SpecGenerator == Init /\ [][NextGenerator]_vars

---------------------------------------------------------------------------
(* ChampionshipDashboard *)

\* The body of the effect: two setInterval calls and one setTimeout.
ChampionshipMount ==
  /\ championshipDashboard.phase = "constructed"
  /\ championshipDashboard' =
       [championshipDashboard EXCEPT
          !.phase = "mounted",
          !.timers = [interval |-> TRUE, alertInterval |-> TRUE,
                      timeout |-> TRUE]]
  /\ UNCHANGED outsideChampionship

\* Mutant: predictionsToday grows by Math.floor(Math.random() * 4).
ChampionshipMetricsByFour(prev, d) ==
  [prev EXCEPT
     !.predictionsToday = prev.predictionsToday + FloorTimes(d.pred, 4),
     !.quantumOptimizations = prev.quantumOptimizations + FloorTimes(d.quant, 2),
     !.systemHealth = Fixed(987) + Centered(d.health, 6)]

\* The updater of the metrics interval callback, with its three draws.
ChampionshipMetrics(prev, d) ==
  [prev EXCEPT
     !.predictionsToday = prev.predictionsToday + FloorTimes(d.pred, 3),
     !.quantumOptimizations = prev.quantumOptimizations + FloorTimes(d.quant, 2),
     !.systemHealth = Fixed(987) + Centered(d.health, 6)]

\* The metrics interval callback (every 3000 ms).
ChampionshipInterval(src) ==
  /\ championshipDashboard.timers.interval
  /\ championshipDashboard.metricTicks < src.maxTicks
  /\ \E d \in src.draws :
       championshipDashboard' =
         [championshipDashboard EXCEPT
            !.metrics = ChampionshipMetrics(@, d),
            !.metricTicks = @ + 1]
  /\ UNCHANGED outsideChampionship

\* The alert interval callback (every 5000 ms).
ChampionshipAlertInterval ==
  /\ championshipDashboard.timers.alertInterval
  /\ championshipDashboard' =
       [championshipDashboard EXCEPT !.liveAlerts = ChampionshipAlerts]
  /\ UNCHANGED outsideChampionship

\* The setTimeout callback, 1500 ms after the effect ran.  React drops a
\* state update of a component that is no longer mounted.
ChampionshipTimeout ==
  /\ championshipDashboard.timers.timeout
  /\ championshipDashboard' =
       [championshipDashboard EXCEPT
          !.timers.timeout = FALSE,
          !.isLoading = IF championshipDashboard.phase = "mounted"
                        THEN FALSE ELSE @]
  /\ UNCHANGED outsideChampionship

\* The cleanup of the effect: clearInterval(interval) and
\* clearInterval(alertInterval); nothing cancels the timeout.
ChampionshipCleanup(ts) ==
  [ts EXCEPT !.interval = FALSE, !.alertInterval = FALSE]

\* The component is unmounted: React runs the cleanup.
ChampionshipUnmount ==
  /\ championshipDashboard.phase = "mounted"
  /\ championshipDashboard' =
       [championshipDashboard EXCEPT
          !.phase = "unmounted",
          !.timers = ChampionshipCleanup(@)]
  /\ UNCHANGED outsideChampionship

---------------------------------------------------------------------------
(* WorldMap *)

generateCrisisHotspots(prev) == [prev EXCEPT !.crisisHotspots = hotspots]

\* The effect of WorldMap; it registers no timer and returns no cleanup.
WorldMapMount ==
  /\ worldMap.phase = "constructed"
  /\ worldMap' = [generateCrisisHotspots(worldMap) EXCEPT !.phase = "mounted"]
  /\ UNCHANGED outsideWorldMap

\* refreshData up to its await: the button is disabled while isLoading.
refreshData ==
  /\ worldMap.phase = "mounted"
  /\ ~worldMap.isLoading
  /\ worldMap' = [worldMap EXCEPT !.isLoading = TRUE, !.refreshTimeout = TRUE]
  /\ UNCHANGED outsideWorldMap

\* The timeout fires and refreshData resumes after its await.  React drops
\* the state updates of a component that is no longer mounted.  refreshed
\* remembers that a refresh has run to its end.
RefreshTimeout ==
  /\ worldMap.refreshTimeout
  /\ worldMap' =
       IF worldMap.phase = "mounted"
       THEN [generateCrisisHotspots(worldMap) EXCEPT
               !.isLoading = FALSE, !.refreshTimeout = FALSE,
               !.refreshed = TRUE]
       ELSE [worldMap EXCEPT !.refreshTimeout = FALSE]
  /\ UNCHANGED outsideWorldMap

\* The component is unmounted; there is no cleanup to run.
WorldMapUnmount ==
  /\ worldMap.phase = "mounted"
  /\ worldMap' = [worldMap EXCEPT !.phase = "unmounted"]
  /\ UNCHANGED outsideWorldMap

\* Mutant: the clicked layer is switched off whatever it was.
HideLayer(prev, layer) == [prev EXCEPT ![layer] = FALSE]

\* The updater of toggleLayer: {...prev, [layer]: !prev[layer]}
FlipLayer(prev, layer) == [prev EXCEPT ![layer] = ~prev[layer]]

\* A click on one of the layer buttons, one per key of mapLayers.
toggleLayer(layer) ==
  /\ worldMap.phase = "mounted"
  /\ worldMap' = [worldMap EXCEPT !.mapLayers = FlipLayer(@, layer)]
  /\ UNCHANGED outsideWorldMap

ToggleClick == \E layer \in DOMAIN worldMap.mapLayers : toggleLayer(layer)

\* A click on one of the rendered hotspots.
setSelectedCrisis ==
  /\ worldMap.phase = "mounted"
  /\ \E i \in 1..Len(worldMap.crisisHotspots) :
       worldMap' = [worldMap EXCEPT !.selectedCrisis = worldMap.crisisHotspots[i]]
  /\ UNCHANGED outsideWorldMap

---------------------------------------------------------------------------
(* The three views with timers, each from mount to after its unmount *)

ViewsSrc ==
  [mountAlerts |-> { <<AlertConst(Lo), AlertConst(Mid), AlertConst(Hi)>> },
   mountClock |-> { <<0, 0, 0>> },
   mountData |-> { [i \in 1..InitialData |-> SampleConst(Mid)] },
   gate |-> {Lo, Hi},
   alert |-> {AlertConst(Mid)},
   data |-> {SampleConst(Mid)},
   metric |-> {MetricConst(Lo)},
   conn |-> {Lo, Hi},
   maxPushes |-> MaxViewEvents,
   maxEvents |-> MaxViewEvents,
   draws |-> { [pred |-> Lo, quant |-> Lo, health |-> Lo],
               [pred |-> Hi, quant |-> Hi, health |-> Hi] },
   maxTicks |-> MaxViewEvents]

NextViews ==
  \/ Mount(ViewsSrc)
  \/ AlertTick(ViewsSrc)
  \/ MetricsTick(ViewsSrc)
  \/ ConnectionTick(ViewsSrc)
  \/ Cleanup
  \/ ChampionshipMount
  \/ ChampionshipInterval(ViewsSrc)
  \/ ChampionshipAlertInterval
  \/ ChampionshipTimeout
  \/ ChampionshipUnmount
  \/ WorldMapMount
  \/ refreshData
  \/ RefreshTimeout
  \/ WorldMapUnmount

SpecViews == Init /\ [][NextViews]_vars

\* ChampionshipDashboard alone, its counters ticking with every kind of draw.
ChampionshipSrc ==
  [draws |-> [pred : {Lo, Mid, Hi}, quant : {Lo, Hi}, health : {Lo, Mid, Hi}],
   maxTicks |-> MaxChampionshipTicks]

NextChampionship ==
  \/ ChampionshipMount
  \/ ChampionshipInterval(ChampionshipSrc)
  \/ ChampionshipAlertInterval
  \/ ChampionshipTimeout
  \/ ChampionshipUnmount

SpecChampionship == Init /\ [][NextChampionship]_vars

---------------------------------------------------------------------------
(* The backend and the handlers that call it *)

\* How a call of apiService ends: its promise is rejected (the network or
\* the backend failed) or fulfilled with the response.
ApiOutcomes == {"rejected", "fulfilled"}

\* How fetch('/api/predict') followed by response.json() ends: fetch is
\* rejected (no network); the body is not JSON and json() is rejected; the
\* backend answers an error status with a JSON error body, which fetch
\* fulfills like any response; the backend answers the prediction.
FetchOutcomes == {"network", "notjson", "error", "fulfilled"}

\* Responses of a working backend.
BackendPrediction ==
  [predicted_yield |-> 3120,
   confidence_score |-> 92,
   risk_level |-> "low",
   recommendations |-> << "Maintain current practices" >>]

BackendEnsemble ==
  [predicted_yield |-> 2990,
   confidence_score |-> 94,
   risk_level |-> "low",
   confidence_interval |-> [lower_95 |-> 2800, upper_95 |-> 3150]]

ErrorBody == [detail |-> "Internal Server Error"]

BackendOptimization ==
  [optimized_routes |->
     << [stop |-> 1, location |-> "Central Warehouse", type |-> "depot",
         priority |-> 1, estimated_time |-> 0] >>,
   total_cost |-> 1900,
   efficiency_gain |-> 220,
   quantum_info |-> [algorithm |-> "QAOA", quantum_advantage |-> "22%",
                     circuit_depth |-> 3, execution_time |-> 5]]

BackendDashboard ==
  [summary |-> [avg_temperature |-> 231, avg_yield |-> 3001,
                total_regions |-> 9, active_predictions |-> 12,
                quantum_optimizations |-> 4],
   recent_predictions |->
     << [region |-> "Europe", yield |-> 3050, risk |-> "low"] >>]

\* Responses of the two data endpoints: with a data array, or without one.
ClimateResponses ==
  { [data |-> << [Date |-> "2024-01", temperature |-> 198, rainfall_mm |-> 110],
                 [Date |-> "2024-02", temperature |-> 207, rainfall_mm |-> 95] >>],
    [message |-> "no climate data"] }

CropResponses ==
  { [data |-> << [region |-> "Europe", yield_tonnes |-> 3050, year |-> 2024] >>],
    [message |-> "no crop data"] }

\* The value undefined of a property the object does not have.
Undefined == [kind |-> "undefined"]

\* obj.f
Get(obj, f) == IF f \in DOMAIN obj THEN obj[f] ELSE Undefined

\* Mutant: try/finally without a catch clause: the rejection goes out.
TryFinally(threw) == IF threw THEN "rejected" ELSE "resolved"

\* The promise of an async handler whose awaits all stand in a try block
\* with a catch clause that logs and sets state: whether or not the try
\* block threw, the handler returns and its promise is resolved.
TryCatch(threw) == "resolved"

\* CrisisPredictor.handlePredict up to its await; the button is disabled
\* while loading.
handlePredict(maxRequests) ==
  /\ ~crisisPredictor.loading
  /\ crisisPredictor.requests < maxRequests
  /\ crisisPredictor' =
       [crisisPredictor EXCEPT
          !.loading = TRUE, !.handler = "pending", !.outcome = "none",
          !.requests = @ + 1]
  /\ UNCHANGED outsideCrisisPredictor

\* handlePredict from its await on: try, catch, finally.
PredictSettles ==
  /\ crisisPredictor.handler = "pending"
  /\ \E r \in ApiOutcomes :
       crisisPredictor' =
         [crisisPredictor EXCEPT
            !.prediction = IF r = "fulfilled" THEN BackendPrediction
                           ELSE FallbackPrediction,
            !.loading = FALSE,
            !.outcome = IF r = "fulfilled" THEN "success" ELSE "failure",
            !.handler = TryCatch(r = "rejected")]
  /\ UNCHANGED outsideCrisisPredictor

\* AdvancedAIPredictor.runPrediction up to its await; the button is
\* disabled while isLoading.
runPrediction(maxRequests) ==
  /\ ~advancedAIPredictor.isLoading
  /\ advancedAIPredictor.requests < maxRequests
  /\ advancedAIPredictor' =
       [advancedAIPredictor EXCEPT
          !.isLoading = TRUE, !.handler = "pending", !.outcome = "none",
          !.requests = @ + 1]
  /\ UNCHANGED outsideAdvancedAIPredictor

\* The entry runPrediction adds to the history; the model lets a minute
\* pass from one request to the next.
HistoryEntry(result, n) ==
  [timestamp |-> ToLocaleTimeString(StartTime + n * Minute),
   yield |-> Get(result, "predicted_yield"),
   confidence |-> Get(result, "confidence_score")]

\* Mutant: setIsLoading(false) stands inside the try block, so a rejected
\* fetch or json() skips it.
PredictionSettlesInTry ==
  /\ advancedAIPredictor.handler = "pending"
  /\ \E r \in FetchOutcomes :
       LET threw == r \in {"network", "notjson"}
           result == IF r = "fulfilled" THEN BackendEnsemble ELSE ErrorBody
       IN  advancedAIPredictor' =
             [advancedAIPredictor EXCEPT
                !.prediction = IF threw THEN @ ELSE result,
                !.predictionHistory =
                   IF threw THEN @
                   ELSE SliceTail(@, 9)
                          \o <<HistoryEntry(result, advancedAIPredictor.requests)>>,
                !.isLoading = IF threw THEN @ ELSE FALSE,
                !.outcome = IF r = "fulfilled" THEN "success" ELSE "failure",
                !.handler = TryCatch(threw)]
  /\ UNCHANGED outsideAdvancedAIPredictor

\* runPrediction from its await on.  Whatever JSON body arrives becomes the
\* prediction and makes a history entry; a rejected fetch or json() is
\* caught and logged, and nothing else is done about it.
PredictionSettles ==
  /\ advancedAIPredictor.handler = "pending"
  /\ \E r \in FetchOutcomes :
       LET threw == r \in {"network", "notjson"}
           result == IF r = "fulfilled" THEN BackendEnsemble ELSE ErrorBody
       IN  advancedAIPredictor' =
             [advancedAIPredictor EXCEPT
                !.prediction = IF threw THEN @ ELSE result,
                !.predictionHistory =
                   IF threw THEN @
                   ELSE SliceTail(@, 9)
                          \o <<HistoryEntry(result, advancedAIPredictor.requests)>>,
                !.isLoading = FALSE,
                !.outcome = IF r = "fulfilled" THEN "success" ELSE "failure",
                !.handler = TryCatch(threw)]
  /\ UNCHANGED outsideAdvancedAIPredictor

\* QuantumOptimizer.handleOptimize up to its await; the button is disabled
\* while loading.
handleOptimize(maxRequests) ==
  /\ ~quantumOptimizer.loading
  /\ quantumOptimizer.requests < maxRequests
  /\ quantumOptimizer' =
       [quantumOptimizer EXCEPT
          !.loading = TRUE, !.handler = "pending", !.outcome = "none",
          !.requests = @ + 1]
  /\ UNCHANGED outsideQuantumOptimizer

\* handleOptimize from its await on: try, catch, finally.
OptimizeSettles ==
  /\ quantumOptimizer.handler = "pending"
  /\ \E r \in ApiOutcomes :
       quantumOptimizer' =
         [quantumOptimizer EXCEPT
            !.optimization = IF r = "fulfilled" THEN BackendOptimization
                             ELSE FallbackOptimization,
            !.loading = FALSE,
            !.outcome = IF r = "fulfilled" THEN "success" ELSE "failure",
            !.handler = TryCatch(r = "rejected")]
  /\ UNCHANGED outsideQuantumOptimizer

\* Dashboard.loadDashboardData up to its await; only the effect calls it,
\* once, at mount.
loadDashboardData ==
  /\ dashboard.handler = "idle"
  /\ dashboard' =
       [dashboard EXCEPT
          !.loading = TRUE, !.handler = "pending", !.requests = @ + 1]
  /\ UNCHANGED outsideDashboard

\* loadDashboardData from its await on: try, catch, finally.
DashboardSettles ==
  /\ dashboard.handler = "pending"
  /\ \E r \in ApiOutcomes :
       dashboard' =
         [dashboard EXCEPT
            !.dashboardData = IF r = "fulfilled" THEN BackendDashboard
                              ELSE FallbackDashboard,
            !.loading = FALSE,
            !.outcome = IF r = "fulfilled" THEN "success" ELSE "failure",
            !.handler = TryCatch(r = "rejected")]
  /\ UNCHANGED outsideDashboard

\* DataExplorer.loadData up to its await: called by the effect at mount and
\* by the Refresh button, which is rendered only when not loading.
loadData(maxRequests) ==
  /\ dataExplorer.handler = "idle" \/ ~dataExplorer.loading
  /\ dataExplorer.handler # "pending"
  /\ dataExplorer.requests < maxRequests
  /\ dataExplorer' =
       [dataExplorer EXCEPT
          !.loading = TRUE, !.handler = "pending", !.outcome = "none",
          !.requests = @ + 1]
  /\ UNCHANGED outsideDataExplorer

\* response.data || []
DataOrEmpty(response) ==
  IF "data" \in DOMAIN response THEN response.data ELSE << >>

\* Mutant: each call is awaited in a try block of its own, so only the
\* dataset whose call failed falls back.
DataSettlesEachAlone ==
  /\ dataExplorer.handler = "pending"
  /\ \E rc \in ApiOutcomes, rk \in ApiOutcomes :
     \E climate \in ClimateResponses, crops \in CropResponses :
       LET threw == rc = "rejected" \/ rk = "rejected"
       IN  dataExplorer' =
             [dataExplorer EXCEPT
                !.climateData = IF rc = "rejected" THEN FallbackClimate
                                ELSE DataOrEmpty(climate),
                !.cropData = IF rk = "rejected" THEN FallbackCrops
                             ELSE DataOrEmpty(crops),
                !.loading = FALSE,
                !.outcome = IF threw THEN "failure" ELSE "success",
                !.loadedReal = @ \/ ~threw,
                !.handler = TryCatch(threw)]
  /\ UNCHANGED outsideDataExplorer

\* loadData from its await on Promise.all, which is rejected when either
\* call is.  loadedReal remembers that some request has stored what the
\* backend sent.
DataSettles ==
  /\ dataExplorer.handler = "pending"
  /\ \E rc \in ApiOutcomes, rk \in ApiOutcomes :
     \E climate \in ClimateResponses, crops \in CropResponses :
       LET threw == rc = "rejected" \/ rk = "rejected"
       IN  dataExplorer' =
             [dataExplorer EXCEPT
                !.climateData = IF threw THEN FallbackClimate
                                ELSE DataOrEmpty(climate),
                !.cropData = IF threw THEN FallbackCrops
                             ELSE DataOrEmpty(crops),
                !.loading = FALSE,
                !.outcome = IF threw THEN "failure" ELSE "success",
                !.loadedReal = @ \/ ~threw,
                !.handler = TryCatch(threw)]
  /\ UNCHANGED outsideDataExplorer

NextBackend ==
  \/ handlePredict(MaxRequests)
  \/ PredictSettles
  \/ runPrediction(MaxRequests)
  \/ PredictionSettles
  \/ handleOptimize(MaxRequests)
  \/ OptimizeSettles
  \/ loadDashboardData
  \/ DashboardSettles
  \/ loadData(MaxRequests)
  \/ DataSettles

SpecBackend == Init /\ [][NextBackend]_vars

\* The six request operations side by side: the five handlers that call the
\* backend and the refresh of WorldMap.
NextLoading ==
  \/ handlePredict(MaxRequests)
  \/ PredictSettles
  \/ runPrediction(MaxRequests)
  \/ PredictionSettles
  \/ handleOptimize(MaxRequests)
  \/ OptimizeSettles
  \/ loadDashboardData
  \/ DashboardSettles
  \/ loadData(MaxRequests)
  \/ DataSettles
  \/ WorldMapMount
  \/ refreshData
  \/ RefreshTimeout
  \/ WorldMapUnmount

SpecLoading == Init /\ [][NextLoading]_vars

\* The two views with a Refresh button: WorldMap with its layer and hotspot
\* clicks, and DataExplorer loading again and again.
NextRefresh ==
  \/ WorldMapMount
  \/ refreshData
  \/ RefreshTimeout
  \/ ToggleClick
  \/ setSelectedCrisis
  \/ WorldMapUnmount
  \/ loadData(MaxReloads)
  \/ DataSettles

SpecRefresh == Init /\ [][NextRefresh]_vars

---------------------------------------------------------------------------
(* Claims on the tick scheduler *)

\* A step of the alertInterval callback.
AlertTickStep == alertTicks' = alertTicks + 1

\* q is s without some of its last elements.
IsPrefix(q, s) == Len(q) <= Len(s) /\ q = SubSeq(s, 1, Len(q))

\* C11: each run of the alertInterval callback either leaves the alerts
\* queue as it was, or puts exactly one alert, created by this run, in front
\* of alerts that were already queued; it never adds two.
C11_TickAddsAtMostOne ==
  [][AlertTickStep =>
       \/ alerts' = alerts /\ nextSeq' = nextSeq
       \/ /\ nextSeq' = nextSeq + 1
          /\ alerts' # << >>
          /\ alerts'[1].seq = nextSeq
          /\ IsPrefix(Tail(alerts'), alerts)
          /\ Cardinality(SeqsOf(alerts') \ SeqsOf(alerts)) = 1]_vars

\* Some run of the callback has added an alert and some run has added none.
C11_Witness ==
  /\ TickPushes >= 1
  /\ alertTicks > TickPushes
  /\ Len(alerts) > InitialAlerts

\* C12: once the cleanup of the effect has run, no interval is registered and
\* no step changes alerts, liveData, systemMetrics or isConnected or creates
\* an alert, however long the component is watched; a second run of the
\* cleanup is one of those steps.
C12_StoppedStaysStopped ==
  [][phase = "unmounted" =>
       /\ timers = NoTimers
       /\ timers' = NoTimers
       /\ alerts' = alerts
       /\ liveData' = liveData
       /\ systemMetrics' = systemMetrics
       /\ isConnected' = isConnected
       /\ nextSeq' = nextSeq]_vars

\* The cleanup has run twice on a component whose three timers had fired.
C12_Witness ==
  /\ phase = "unmounted"
  /\ cleanups = 2
  /\ TickPushes >= 1
  /\ metricsTicks >= 1
  /\ ~isConnected

\* C13: in every view, once the view is unmounted none of the timers it
\* registered is still to fire (so no callback of the view runs after its
\* unmount): the three intervals of RealTimeDashboard, the two intervals and
\* the timeout of ChampionshipDashboard, the timeout of WorldMap.refreshData.
C13_UnmountCancelsEveryTimer ==
  /\ phase = "unmounted" => timers = NoTimers
  /\ championshipDashboard.phase = "unmounted" =>
       /\ ~championshipDashboard.timers.interval
       /\ ~championshipDashboard.timers.alertInterval
       /\ ~championshipDashboard.timers.timeout
  /\ worldMap.phase = "unmounted" => ~worldMap.refreshTimeout

---------------------------------------------------------------------------
(* Claims on the event generator *)

\* The documented split of one uniform draw u (numerator k).
SeverityOf(k) ==
  IF RandomAbove(k, 7) THEN "high"
  ELSE IF RandomAbove(k, 4) THEN "medium" ELSE "low"

\* C14: one of the draws generateAlert makes for the severity decides it
\* alone, for every alert: high when u > 0.7, medium when 0.4 < u <= 0.7,
\* low when u <= 0.4.
C14_SeverityOfOneDraw ==
  \E u \in {"sev1", "sev2"} :
    \A i \in AlertIndex : alerts[i].severity = SeverityOf(alerts[i].draw[u])

\* The catalog entries an alert of type t can come from.
EntriesOf(t) == {e \in 1..Len(alertTypes) : alertTypes[e].type = t}

WellFormed(a) ==
  /\ a.type \in {"crisis", "prediction", "quantum", "system"}
  /\ a.severity \in {"low", "medium", "high"}
  /\ \E e \in EntriesOf(a.type) :
       /\ Len(alertTypes[e].messages) = 4
       /\ \E m \in 1..4 : a.message = alertTypes[e].messages[m]
       /\ a.color = alertTypes[e].color
       /\ a.icon = alertTypes[e].icon

\* C15: every alert in the queue is well-formed (a type of the catalog, a
\* severity of low, medium, high, a message, color and icon of its type's
\* entry), and an alert created by a step is unread after that step.
C15_AlertsWellFormed ==
  [][\A i \in 1..Len(alerts') :
       /\ WellFormed(alerts'[i])
       /\ alerts'[i].seq >= nextSeq => ~alerts'[i].read]_vars

\* Alerts of all four types and all three severities are queued, one of
\* them created by a tick, one of them read.
C15_Witness ==
  /\ {alerts[i].type : i \in AlertIndex} =
       {"crisis", "prediction", "quantum", "system"}
  /\ {alerts[i].severity : i \in AlertIndex} = {"low", "medium", "high"}
  /\ \E i \in AlertIndex : alerts[i].seq > InitialAlerts
  /\ \E i \in AlertIndex : alerts[i].read

\* C16: no two alerts in the queue share an id.
C16_IdsUnique ==
  \A i, j \in AlertIndex : i # j => alerts[i].id # alerts[j].id

\* The draws that decide the category and the severity of an alert.
Decisive(d) == <<d.type, d.msg, d.sev1, d.sev2>>

---------------------------------------------------------------------------
(* Claims on the life of an alert *)

\* The alerts (by creation ordinal) that a step takes out of the queue, and
\* those it puts in.
Leaving == SeqsOf(alerts) \ SeqsOf(alerts')

Entering == SeqsOf(alerts') \ SeqsOf(alerts)

\* C20: no alert stands twice in the queue; a step puts in only alerts it
\* has just created (so an alert enters once and one that left never comes
\* back); and an alert leaves only as the last of a full queue when a tick
\* pushes, or in a dismissAlert call for its id.
C20_EntersOnceLeavesTwoWays ==
  [][/\ Cardinality(SeqsOf(alerts')) = Len(alerts')
     /\ \A q \in Entering : q >= nextSeq /\ q < nextSeq'
     /\ Leaving # {} =>
          \/ /\ PushStep
             /\ Len(alerts) = AlertKeep + 1
             /\ Leaving = {alerts[Len(alerts)].seq}
          \/ /\ userOps' = userOps + 1
             /\ nextSeq' = nextSeq
             /\ \E alertId \in ClickIds :
                  /\ alerts' = FilterOut(alerts, alertId)
                  /\ \A i \in AlertIndex :
                       alerts[i].seq \in Leaving <=> alerts[i].id = alertId]_vars

\* Eleven alerts with eleven ids were created and nine are queued after one
\* click: one was evicted by a push onto the full queue, one dismissed.
C20_Witness ==
  /\ nextSeq - 1 = AlertKeep + 2
  /\ Cardinality(issued) = nextSeq - 1
  /\ userOps = 1
  /\ Len(alerts) = AlertKeep

---------------------------------------------------------------------------
(* Claims on backend failures *)

\* The fixed payloads the code substitutes for a failed call.
Fallbacks == {FallbackPrediction, FallbackOptimization, FallbackDashboard}

\* C17: in each of the five components, when the backend call of the latest
\* request has failed, the result state holds the fallback payload.
C17_FailureGivesFallback ==
  /\ crisisPredictor.outcome = "failure" =>
       crisisPredictor.prediction = FallbackPrediction
  /\ advancedAIPredictor.outcome = "failure" =>
       advancedAIPredictor.prediction \in Fallbacks
  /\ quantumOptimizer.outcome = "failure" =>
       quantumOptimizer.optimization = FallbackOptimization
  /\ dashboard.outcome = "failure" =>
       dashboard.dashboardData = FallbackDashboard
  /\ dataExplorer.outcome = "failure" =>
       /\ dataExplorer.climateData = FallbackClimate
       /\ dataExplorer.cropData = FallbackCrops

---------------------------------------------------------------------------
(* Claims on interleavings *)

\* C21: every step works on the state the step before it left.  No alert
\* that had left comes back with a tick; every queued alert is, after the
\* step, still queued as it was, unless it is the last of a full queue and a
\* tick pushes, or the step is a dismissAlert or markAsRead for its own id;
\* a step on the alerts leaves liveData and systemMetrics alone and a
\* metrics tick leaves the alerts alone and keeps the last nine samples.
C21_NoLostUpdate ==
  [][/\ \A q \in Entering : q >= nextSeq
     /\ \A i \in AlertIndex :
          \/ \E j \in 1..Len(alerts') : alerts'[j] = alerts[i]
          \/ PushStep /\ i = Len(alerts) /\ Len(alerts) = AlertKeep + 1
          \/ /\ userOps' = userOps + 1
             /\ \E alertId \in ClickIds :
                  /\ alerts[i].id = alertId
                  /\ \/ alerts' = FilterOut(alerts, alertId)
                     \/ alerts' = MapRead(alerts, alertId)
     /\ phase = "mounted" /\ alerts' # alerts =>
          liveData' = liveData /\ systemMetrics' = systemMetrics
     /\ metricsTicks' = metricsTicks + 1 =>
          /\ alerts' = alerts
          /\ IsPrefix(SliceTail(liveData, DataKeep), liveData')
          /\ Len(liveData') = Len(SliceTail(liveData, DataKeep)) + 1]_vars

\* Ticks have pushed, a metrics tick has run, and of two clicks one has
\* dismissed an alert of a queue that was not full and one has marked a
\* queued alert read; the newest alert is queued.
C21_Witness ==
  /\ TickPushes >= 2
  /\ userOps + metricsTicks = MaxQueueEvents
  /\ userOps >= 1
  /\ nextSeq - 1 <= AlertKeep + 1
  /\ Len(alerts) < nextSeq - 1
  /\ alerts # << >>
  /\ alerts[1].seq = nextSeq - 1

---------------------------------------------------------------------------
(* Claims on the request handlers' results *)

\* The fields the prediction panel reads from the payload.
PayloadFields ==
  {"predicted_yield", "confidence_score", "risk_level", "confidence_interval"}

\* C22: after any sequence of runPrediction outcomes the prediction of
\* AdvancedAIPredictor is null or a payload holding predicted_yield,
\* confidence_score, risk_level and confidence_interval.
C22_PredictionNullOrWellFormed ==
  \/ advancedAIPredictor.prediction = Null
  \/ PayloadFields \subseteq DOMAIN advancedAIPredictor.prediction

---------------------------------------------------------------------------
(* Claims on single metrics *)

\* C23: crisis_alerts never rises.  Every step leaves it as it was or lower
\* by 1, only a metrics tick lowers it, it never exceeds its initial value 8,
\* and from 0 it does not move.
C23_CrisisAlertsNeverRise ==
  [][LET v == systemMetrics.crisis_alerts
         w == systemMetrics'.crisis_alerts
     IN  /\ w = v \/ w = v - Fixed(10)
         /\ w # v => metricsTicks' = metricsTicks + 1
         /\ 0 <= w /\ w <= InitialMetrics.crisis_alerts
         /\ v = 0 => w = 0]_vars

\* crisis_alerts has fallen from 8 to 0 and ticks have run on it since.
C23_Witness ==
  /\ systemMetrics.crisis_alerts = 0
  /\ metricsTicks > 8

---------------------------------------------------------------------------
(* Claims on the loading flags *)

\* C24: for handlePredict, runPrediction, handleOptimize, loadDashboardData,
\* loadData and refreshData the loading flag is true while the operation is
\* under way and false once it has settled, by success or by failure.
\* (Dashboard and DataExplorer are constructed loading; their request starts
\* with the first effect.  WorldMap is judged while it is mounted.)
C24_LoadingExactlyWhilePending ==
  /\ crisisPredictor.loading <=> crisisPredictor.handler = "pending"
  /\ advancedAIPredictor.isLoading <=> advancedAIPredictor.handler = "pending"
  /\ quantumOptimizer.loading <=> quantumOptimizer.handler = "pending"
  /\ dashboard.loading <=> dashboard.handler \in {"idle", "pending"}
  /\ dataExplorer.loading <=>
       \/ dataExplorer.handler = "pending"
       \/ dataExplorer.handler = "idle" /\ dataExplorer.requests = 0
  /\ worldMap.phase = "mounted" =>
       (worldMap.isLoading <=> worldMap.refreshTimeout)

\* Requests have settled by failure and by success and left the flags false,
\* while handleOptimize and refreshData are under way with theirs true.
C24_Witness ==
  /\ crisisPredictor.outcome = "failure" /\ ~crisisPredictor.loading
  /\ advancedAIPredictor.outcome = "failure" /\ ~advancedAIPredictor.isLoading
  /\ advancedAIPredictor.prediction = Null
  /\ dashboard.outcome = "success" /\ ~dashboard.loading
  /\ dataExplorer.outcome = "failure" /\ ~dataExplorer.loading
  /\ quantumOptimizer.handler = "pending" /\ quantumOptimizer.loading
  /\ worldMap.phase = "mounted" /\ worldMap.isLoading

---------------------------------------------------------------------------
(* Claims on DataExplorer *)

\* C25: loadData replaces the two datasets together.  When a request
\* settles by failure, climateData is the 6 fallback rows and cropData the
\* 5 fallback rows, whatever they held before; when it settles by success
\* neither is a fallback; so one is a fallback exactly when the other is.
C25_DatasetsReplacedTogether ==
  [][dataExplorer.handler = "pending" /\ dataExplorer'.handler # "pending" =>
       /\ dataExplorer'.outcome = "failure" =>
            /\ dataExplorer'.climateData = FallbackClimate
            /\ Len(dataExplorer'.climateData) = 6
            /\ dataExplorer'.cropData = FallbackCrops
            /\ Len(dataExplorer'.cropData) = 5
       /\ dataExplorer'.climateData = FallbackClimate
            <=> dataExplorer'.cropData = FallbackCrops]_vars

\* A request has failed after an earlier one had stored the backend's rows.
C25_Witness ==
  /\ dataExplorer.loadedReal
  /\ dataExplorer.outcome = "failure"
  /\ dataExplorer.requests = MaxReloads
  /\ dataExplorer.climateData = FallbackClimate
  /\ dataExplorer.cropData = FallbackCrops

---------------------------------------------------------------------------
(* Claims on the prediction history *)

\* A step in which runPrediction settles.
PredictionSettleStep ==
  /\ advancedAIPredictor.handler = "pending"
  /\ advancedAIPredictor'.handler # "pending"

\* C26: the history holds at most 10 entries, the latest successful
\* predictions in the order they completed: a runPrediction that succeeds
\* appends its yield and confidence to the last nine entries, and one that
\* fails leaves the history and the prediction as they were.
C26_HistoryOfSuccesses ==
  [][/\ Len(advancedAIPredictor'.predictionHistory) <= 10
     /\ PredictionSettleStep =>
          LET old == advancedAIPredictor.predictionHistory
              new == advancedAIPredictor'.predictionHistory
          IN  IF advancedAIPredictor'.outcome = "success"
              THEN /\ IsPrefix(SliceTail(old, 9), new)
                   /\ Len(new) = Len(SliceTail(old, 9)) + 1
                   /\ new[Len(new)].yield = BackendEnsemble.predicted_yield
                   /\ new[Len(new)].confidence = BackendEnsemble.confidence_score
              ELSE /\ new = old
                   /\ advancedAIPredictor'.prediction
                        = advancedAIPredictor.prediction]_vars

---------------------------------------------------------------------------
(* Claims on ChampionshipDashboard *)

\* C27: the metrics tick of ChampionshipDashboard changes predictionsToday,
\* quantumOptimizations and systemHealth and nothing else: the first grows
\* by 0, 1 or 2, the second by 0 or 1, systemHealth lands within
\* [98.4, 99.0], and crisisAlertsActive, regionsMonitored and
\* quantumAdvantage keep 0, 12 and 23.4; no other step changes the metrics.
C27_TickChangesThreeMetrics ==
  [][LET m == championshipDashboard.metrics
         n == championshipDashboard'.metrics
         ticked ==
           championshipDashboard'.metricTicks
             = championshipDashboard.metricTicks + 1
     IN  /\ n # m => ticked
         /\ ticked =>
              /\ n.predictionsToday - m.predictionsToday \in 0..2
              /\ n.quantumOptimizations - m.quantumOptimizations \in 0..1
              /\ Fixed(984) <= n.systemHealth /\ n.systemHealth <= Fixed(990)
              /\ n.crisisAlertsActive = 0
              /\ n.regionsMonitored = 12
              /\ n.quantumAdvantage = Fixed(234)
              /\ championshipDashboard'.liveAlerts
                   = championshipDashboard.liveAlerts
              /\ championshipDashboard'.isLoading
                   = championshipDashboard.isLoading
              /\ championshipDashboard'.timers = championshipDashboard.timers
              /\ championshipDashboard'.phase = championshipDashboard.phase]_vars

\* Every tick has added the most it can and the last one left systemHealth
\* below 98.7, with the alerts shown.
C27_Witness ==
  /\ championshipDashboard.metricTicks = MaxChampionshipTicks
  /\ championshipDashboard.metrics.predictionsToday = 2 * MaxChampionshipTicks
  /\ championshipDashboard.metrics.quantumOptimizations = MaxChampionshipTicks
  /\ championshipDashboard.metrics.systemHealth = Fixed(984)
  /\ championshipDashboard.liveAlerts # << >>

---------------------------------------------------------------------------
(* Claims on the connection flag *)

\* C29: isConnected is written by the connection tick alone, and the alert
\* tick and the metrics tick do not look at it.  A step that changes
\* isConnected is a run of the connectionInterval callback and changes
\* nothing else; connected or not, while their timers run the two ticks can
\* fire, every metrics tick pushes its sample, and every alert tick that
\* changes the queue pushes one alert.
C29_TicksIgnoreConnection ==
  [][/\ isConnected' # isConnected =>
          /\ timers["connectionInterval"]
          /\ UNCHANGED <<phase, alerts, systemMetrics, liveData, alertTicks,
                         metricsTicks, userOps, nextSeq, timers>>
     /\ timers["metricsInterval"] /\ OtherEvents < MaxStopEvents =>
          ENABLED MetricsTick(LifecycleSrc)
     /\ timers["alertInterval"] /\ OtherEvents < MaxStopEvents
          /\ TickPushes < MaxStopPushes =>
          ENABLED AlertTick(LifecycleSrc)
     /\ metricsTicks' = metricsTicks + 1 =>
          /\ Len(pushed') = Len(pushed) + 1
          /\ liveData'[Len(liveData')] = pushed'[Len(pushed')]
          /\ systemMetrics' \in
               {UpdateMetrics(systemMetrics, dv) : dv \in LifecycleSrc.metric}
     /\ AlertTickStep /\ alerts' # alerts =>
          nextSeq' = nextSeq + 1 /\ alerts'[1].seq = nextSeq]_vars

\* The view is disconnected with its timers running: ticks have run and
\* both ticks can fire again.
C29_Witness ==
  /\ ~isConnected
  /\ phase = "mounted"
  /\ metricsTicks >= 1
  /\ TickPushes >= 1
  /\ ENABLED MetricsTick(LifecycleSrc)
  /\ ENABLED AlertTick(LifecycleSrc)

---------------------------------------------------------------------------
(* Claims on WorldMap *)

\* C30: refreshData is idempotent on the data.  After mount and after any
\* refresh crisisHotspots is the same list of five hotspots with ids 1..5;
\* the start and the end of a refresh change neither selectedCrisis nor
\* mapLayers; a step that changes mapLayers flips one layer and nothing
\* else; and flipping a layer twice gives back the layers as they were.
C30_RefreshIdempotentToggleInvolutive ==
  [][/\ worldMap'.phase = "mounted" =>
          /\ worldMap'.crisisHotspots = hotspots
          /\ [i \in 1..Len(worldMap'.crisisHotspots) |->
                 worldMap'.crisisHotspots[i].id] = <<1, 2, 3, 4, 5>>
     /\ worldMap'.isLoading # worldMap.isLoading =>
          /\ worldMap'.selectedCrisis = worldMap.selectedCrisis
          /\ worldMap'.mapLayers = worldMap.mapLayers
     /\ worldMap'.mapLayers # worldMap.mapLayers =>
          /\ \E layer \in DOMAIN worldMap.mapLayers :
               /\ worldMap'.mapLayers[layer] = ~worldMap.mapLayers[layer]
               /\ \A other \in DOMAIN worldMap.mapLayers \ {layer} :
                    worldMap'.mapLayers[other] = worldMap.mapLayers[other]
          /\ DOMAIN worldMap'.mapLayers = DOMAIN worldMap.mapLayers
          /\ worldMap' = [worldMap EXCEPT !.mapLayers = worldMap'.mapLayers]
     /\ \A layer \in DOMAIN worldMap.mapLayers :
          /\ FlipLayer(worldMap.mapLayers, layer) # worldMap.mapLayers
          /\ FlipLayer(FlipLayer(worldMap.mapLayers, layer), layer)
               = worldMap.mapLayers]_vars

\* A refresh has run to its end with a hotspot selected and one layer
\* switched off; the list is the five hotspots.
C30_Witness ==
  /\ worldMap.phase = "mounted"
  /\ worldMap.refreshed
  /\ ~worldMap.isLoading
  /\ worldMap.crisisHotspots = hotspots
  /\ worldMap.selectedCrisis = hotspots[2]
  /\ ~worldMap.mapLayers.rainfall
  /\ worldMap.mapLayers.temperature

====
